---- MODULE Spec2Model ----
(***************************************************************************)
(* A model of index.js: an Express application over two Mongoose           *)
(* collections (Product, Image) and a multer disk store.                   *)
(*                                                                         *)
(* Text (form fields, file names, content types) is a sequence of          *)
(* one-character strings; an absent form field is Undefined.  A JavaScript *)
(* number is a record [m, s] standing for m / 10^s, in lowest form (s = 0  *)
(* for an integer); NaN and the absent number are records of their own.    *)
(*                                                                         *)
(* The document store and the filesystem are taken to answer every call:   *)
(* a store outage is not modelled.  Library behaviour (Express routing,    *)
(* multer, Mongoose casting) is modelled as far as index.js relies on it.  *)
(***************************************************************************)
EXTENDS Integers, Sequences, FiniteSets, TLC

Undefined == <<"undefined">>
NaN == [m |-> 0, s |-> -1]
NoNumber == [m |-> 0, s |-> -2]
Num(n) == [m |-> n, s |-> 0]

----------------------------------------------------------------------------
(* JavaScript text to number conversions used by POST /api/products.       *)

DigitChars == {"0", "1", "2", "3", "4", "5", "6", "7", "8", "9"}

DigitVal(ch) ==
  CASE ch = "0" -> 0 [] ch = "1" -> 1 [] ch = "2" -> 2 [] ch = "3" -> 3
    [] ch = "4" -> 4 [] ch = "5" -> 5 [] ch = "6" -> 6 [] ch = "7" -> 7
    [] ch = "8" -> 8 [] ch = "9" -> 9

\* The text without its leading white space.
RECURSIVE TrimStart(_)
TrimStart(t) ==
  IF t # <<>> /\ Head(t) = " " THEN TrimStart(Tail(t)) ELSE t

\* Length of the longest prefix of t made of decimal digits.
RECURSIVE DigitRun(_)
DigitRun(t) ==
  IF t # <<>> /\ Head(t) \in DigitChars THEN 1 + DigitRun(Tail(t)) ELSE 0

\* Value of a sequence of decimal digits (0 for the empty one).
RECURSIVE DigitsValue(_)
DigitsValue(ds) ==
  IF ds = <<>> THEN 0
  ELSE 10 * DigitsValue(SubSeq(ds, 1, Len(ds) - 1)) + DigitVal(ds[Len(ds)])

\* m / 10^s in lowest form.
RECURSIVE NormDec(_, _)
NormDec(m, s) ==
  IF s > 0 /\ m % 10 = 0 THEN NormDec(m \div 10, s - 1)
  ELSE [m |-> m, s |-> s]

\* parseInt(text), radix 10: white space, a sign, then the longest run of
\* digits; whatever follows is ignored; NaN when there is no digit.
ParseInt(text) ==
  IF text = Undefined THEN NaN
  ELSE
    LET t == TrimStart(text)
        neg == t # <<>> /\ Head(t) = "-"
        u == IF t # <<>> /\ Head(t) \in {"-", "+"} THEN Tail(t) ELSE t
        n == DigitRun(u)
        v == DigitsValue(SubSeq(u, 1, n))
    IN IF n = 0 THEN NaN ELSE Num(IF neg THEN 0 - v ELSE v)

\* parseFloat(text): white space, a sign, then the longest prefix that is a
\* decimal literal (digits, optionally a point and more digits); NaN when
\* there is none.  Exponents and "Infinity" are outside the alphabet used.
ParseFloat(text) ==
  IF text = Undefined THEN NaN
  ELSE
    LET t == TrimStart(text)
        neg == t # <<>> /\ Head(t) = "-"
        u == IF t # <<>> /\ Head(t) \in {"-", "+"} THEN Tail(t) ELSE t
        n == DigitRun(u)
        rest == SubSeq(u, n + 1, Len(u))
        hasPoint == rest # <<>> /\ Head(rest) = "."
        f == IF hasPoint THEN DigitRun(Tail(rest)) ELSE 0
        fp == IF hasPoint THEN SubSeq(rest, 2, f + 1) ELSE <<>>
        mant == DigitsValue(SubSeq(u, 1, n) \o fp)
        v == NormDec(IF neg THEN 0 - mant ELSE mant, f)
    IN IF n = 0 /\ f = 0 THEN NaN ELSE v

\* JavaScript truthiness of a form field (a string or undefined) and of a
\* number.
TruthyText(t) == ~(t = Undefined \/ t = <<>>)
TruthyNum(v) == ~(v = NaN \/ v = NoNumber \/ v.m = 0)

----------------------------------------------------------------------------
(* JSON.parse on the `colors` field.  The text is a sequence of tokens:    *)
(* <<"[">>, <<"]">>, <<",">> and string literals <<"str", value>>.  The    *)
(* result is [err, array, items]: a syntax error, or an array of strings,  *)
(* or one bare string (array = FALSE, items = <<value>>).                  *)

IsStrTok(tok) == Len(tok) = 2 /\ tok[1] = "str"

JSONError == [err |-> TRUE, array |-> FALSE, items |-> <<>>]

\* The elements of `literal (, literal)*`, or JSONError.
RECURSIVE JSONElements(_)
JSONElements(ts) ==
  IF ts = <<>> \/ ~IsStrTok(Head(ts)) THEN JSONError
  ELSE IF Len(ts) = 1
       THEN [err |-> FALSE, array |-> TRUE, items |-> <<Head(ts)[2]>>]
  ELSE IF ts[2] # <<",">> THEN JSONError
  ELSE LET r == JSONElements(SubSeq(ts, 3, Len(ts)))
       IN IF r.err THEN JSONError
          ELSE [r EXCEPT !.items = <<Head(ts)[2]>> \o r.items]

JSONParse(text) ==
  IF text = Undefined \/ text = <<>> THEN JSONError
  ELSE IF Len(text) = 1
       THEN IF IsStrTok(text[1])
            THEN [err |-> FALSE, array |-> FALSE, items |-> <<text[1][2]>>]
            ELSE JSONError
  ELSE IF Head(text) # <<"[">> \/ text[Len(text)] # <<"]">> THEN JSONError
  ELSE IF Len(text) = 2 THEN [err |-> FALSE, array |-> TRUE, items |-> <<>>]
  ELSE JSONElements(SubSeq(text, 2, Len(text) - 1))

----------------------------------------------------------------------------
(* The shared upload validation: multer with disk storage.  A file of a    *)
(* request is [originalname, mimetype, size]; size is in bytes.            *)

FileSizeLimit == 20 * 1024 * 1024

ToLowerChar(ch) ==
  CASE ch = "P" -> "p" [] ch = "N" -> "n" [] ch = "G" -> "g"
    [] ch = "J" -> "j" [] ch = "E" -> "e" [] ch = "I" -> "i"
    [] ch = "F" -> "f" [] OTHER -> ch

ToLowerCase(t) == [i \in 1..Len(t) |-> ToLowerChar(t[i])]

\* Does pat occur somewhere in t?
Contains(t, pat) ==
  \E i \in 1..(Len(t) - Len(pat) + 1) : SubSeq(t, i, i + Len(pat) - 1) = pat

\* Positions of character ch in t.
Positions(t, ch) == {i \in 1..Len(t) : t[i] = ch}

Max(S) == CHOOSE x \in S : \A y \in S : y <= x

\* path.extname: from the last "." of the last path segment to the end; empty
\* when there is no "." or when the segment only starts with one.
ExtName(p) ==
  LET slashes == Positions(p, "/")
      base == IF slashes = {} THEN p ELSE SubSeq(p, Max(slashes) + 1, Len(p))
      dots == Positions(base, ".")
  IN IF dots = {} \/ Max(dots) = 1 THEN <<>>
     ELSE SubSeq(base, Max(dots), Len(base))

\* /jpeg|jpg|png/.test(t): the expression has no anchors.
FileTypesTest(t) ==
  \/ Contains(t, <<"j", "p", "e", "g">>)
  \/ Contains(t, <<"j", "p", "g">>)
  \/ Contains(t, <<"p", "n", "g">>)

\* upload.fileFilter: TRUE when the file is let through.
FileFilter(file) ==
  LET extname == FileTypesTest(ToLowerCase(ExtName(file.originalname)))
      mimetype == FileTypesTest(file.mimetype)
  IN extname /\ mimetype

NoError == [name |-> "none", code |-> "none"]
MulterError(code) == [name |-> "MulterError", code |-> code]
JsError(message) == [name |-> "Error", code |-> message]

\* What multer does with the i-th file of a field that takes maxCount files:
\* the count is checked first, then the filter, then the stream is written
\* and cut at the size limit.
FileError(file, i, maxCount) ==
  IF i > maxCount THEN MulterError("LIMIT_UNEXPECTED_FILE")
  ELSE IF ~FileFilter(file) THEN JsError("Only images (jpeg, jpg, png) are allowed!")
  ELSE IF file.size > FileSizeLimit THEN MulterError("LIMIT_FILE_SIZE")
  ELSE NoError

\* storage.filename and storage.destination: the stored name is the time of
\* the write and the original name; the path is the name under the upload
\* directory.  A stored name is <<time, originalname>>.
StoredFile(file, now) ==
  [filename |-> <<now, file.originalname>>,
   path |-> <<"uploads", <<now, file.originalname>>>>]

\* Date.now() at the write of the i-th file of a request that starts at time
\* `now` and sees the clock tick once after its k-th file.
TimeOf(now, k, i) == IF i > k THEN now + 1 ELSE now

\* upload.array / upload.single: the files are taken in the order of the
\* request.  The first file in error aborts the request, and multer then
\* removes what the request has written (`removed`).  Otherwise req.files
\* lists the stored files in that order.
MulterResult(files, errs, now, k) ==
  LET bad == {i \in 1..Len(files) : errs[i] # NoError}
      first == CHOOSE i \in bad : \A j \in bad : i <= j
      name(i) == StoredFile(files[i], TimeOf(now, k, i)).filename
  IN IF bad # {}
     THEN [err |-> errs[first],
           files |-> <<>>,
           written |-> {},
           removed |-> {name(i) : i \in 1..(first - 1)}
                       \cup (IF errs[first].code = "LIMIT_FILE_SIZE"
                             THEN {name(first)} ELSE {})]
     ELSE [err |-> NoError,
           files |-> [i \in 1..Len(files) |-> StoredFile(files[i], TimeOf(now, k, i))],
           written |-> {name(i) : i \in 1..Len(files)},
           removed |-> {}]

Multer(files, maxCount, now, k) ==
  MulterResult(files, [i \in 1..Len(files) |-> FileError(files[i], i, maxCount)], now, k)

----------------------------------------------------------------------------
(* Express: the application's stack in the order index.js registers it.    *)
(* A layer is a plain middleware, an error-handling middleware (four       *)
(* parameters) or a route.                                                 *)

AppStack ==
  << [name |-> "express.json", kind |-> "middleware"],
     [name |-> "cors", kind |-> "middleware"],
     [name |-> "multerErrors", kind |-> "error"],
     [name |-> "GET /api/products", kind |-> "route"],
     [name |-> "POST /api/products", kind |-> "route"],
     [name |-> "GET /api/products/:id", kind |-> "route"],
     [name |-> "PUT /api/products/:id", kind |-> "route"],
     [name |-> "DELETE /api/products/:id", kind |-> "route"],
     [name |-> "POST /api/uploads-blog", kind |-> "route"],
     [name |-> "POST /api/images", kind |-> "route"],
     [name |-> "GET /api/images", kind |-> "route"],
     [name |-> "DELETE /api/images/:id", kind |-> "route"],
     [name |-> "/uploads", kind |-> "middleware"],
     [name |-> "/api-docs", kind |-> "middleware"] >>

LayerOf(name) == CHOOSE i \in 1..Len(AppStack) : AppStack[i].name = name

Response(status, body) == [status |-> status, body |-> body]

\* The error-handling middleware of index.js.  handled = FALSE stands for
\* next(err).
MulterErrorMiddleware(err) ==
  IF err.name = "MulterError"
  THEN IF err.code = "LIMIT_FILE_SIZE"
       THEN [handled |-> TRUE, res |-> Response(400, "File too large. Maximum size is 20 MB.")]
       ELSE [handled |-> FALSE, res |-> Response(0, "")]
  ELSE [handled |-> TRUE, res |-> Response(500, "An unexpected error occurred.")]

\* Express's last resort: the error has no status of its own, so 500.
FinalHandler(err) == Response(500, "Internal Server Error")

\* next(err) from the layer `from`: Express hands the error to the error
\* middlewares registered after that layer, in order, and to its final
\* handler when none of them ends the request.
RECURSIVE NextErr(_, _)
NextErr(err, from) ==
  IF from >= Len(AppStack) THEN FinalHandler(err)
  ELSE IF AppStack[from + 1].kind = "error" /\ MulterErrorMiddleware(err).handled
       THEN MulterErrorMiddleware(err).res
  ELSE NextErr(err, from + 1)

----------------------------------------------------------------------------
(* Mongoose: the Product and Image documents.                              *)

\* An id of the request path that is no ObjectId makes the query throw a
\* CastError.  Ids are positive numbers; MalformedId stands for such a text.
MalformedId == -1
IsObjectId(id) == id > 0

NoDoc == [id |-> 0]

\* ProductData with the images in the reverse order.
ProductDataReversed(form, imgs) ==
  [name |-> form.name,
   variant |-> form.variant,
   price |-> ParseInt(form.price),
   originalPrice |-> IF TruthyText(form.originalPrice)
                     THEN ParseInt(form.originalPrice) ELSE NoNumber,
   category |-> form.category,
   colors |-> JSONParse(form.colors),
   rating |-> IF TruthyNum(ParseFloat(form.rating))
              THEN ParseFloat(form.rating) ELSE Num(0),
   reviews |-> IF TruthyNum(ParseInt(form.reviews))
               THEN ParseInt(form.reviews) ELSE Num(0),
   isNew |-> TruthyText(form.isNew),
   badge |-> form.badge,
   images |-> [i \in 1..Len(imgs) |-> imgs[Len(imgs) + 1 - i]]]

\* The body of POST /api/products between the image count test and save().
ProductData(form, imgs) ==
  [name |-> form.name,
   variant |-> form.variant,
   price |-> ParseInt(form.price),
   originalPrice |-> IF TruthyText(form.originalPrice)
                     THEN ParseInt(form.originalPrice) ELSE NoNumber,
   category |-> form.category,
   colors |-> JSONParse(form.colors),
   rating |-> IF TruthyNum(ParseFloat(form.rating))
              THEN ParseFloat(form.rating) ELSE Num(0),
   reviews |-> IF TruthyNum(ParseInt(form.reviews))
               THEN ParseInt(form.reviews) ELSE Num(0),
   isNew |-> TruthyText(form.isNew),
   badge |-> form.badge,
   images |-> imgs]

\* productSchema at save(): a required text is present and not empty, a
\* number is not NaN.
ProductInvalid(data) ==
  \/ ~TruthyText(data.name)
  \/ ~TruthyText(data.variant)
  \/ ~TruthyText(data.category)
  \/ data.price = NaN
  \/ data.originalPrice = NaN

\* new Product(productData): the document with its id and createdAt; a
\* value given for an array path that is no array becomes a one-element
\* array.
NewProduct(data, id, now) ==
  [id |-> id,
   name |-> data.name,
   variant |-> data.variant,
   price |-> data.price,
   originalPrice |-> data.originalPrice,
   category |-> data.category,
   colors |-> data.colors.items,
   rating |-> data.rating,
   reviews |-> data.reviews,
   isNew |-> data.isNew,
   badge |-> data.badge,
   createdAt |-> now,
   images |-> data.images]

\* new Image({filename, path}).
NewImage(file, id, now) ==
  [id |-> id, filename |-> file.filename, path |-> file.path, createdAt |-> now]

\* ApplyUpdate that leaves the name of the document alone.
ApplyUpdateKeepsName(doc, body) ==
  [f \in DOMAIN doc |-> IF f \in DOMAIN body /\ f # "name" THEN body[f] ELSE doc[f]]

\* findByIdAndUpdate(id, body): the fields of the body replace those of the
\* document; nothing is validated again.
ApplyUpdate(doc, body) ==
  [f \in DOMAIN doc |-> IF f \in DOMAIN body THEN body[f] ELSE doc[f]]

\* A collection is a function from the ids of its documents.
Insert(coll, doc) ==
  [i \in DOMAIN coll \cup {doc.id} |-> IF i = doc.id THEN doc ELSE coll[i]]

Remove(coll, id) == [i \in DOMAIN coll \ {id} |-> coll[i]]

----------------------------------------------------------------------------
(* The route handlers, as functions of what they are given.  A handler     *)
(* either answers at once (store = FALSE, res) or awaits the store         *)
(* (store = TRUE) and answers when it is resumed.                          *)

ProductImagesMax == 10
SingleFileMax == 1
MinImages == 2
MaxImages == 10

NoResponse == Response(0, "")

\* POST /api/products, from the handler's first line to `await save()`.
CreateProduct(form, files, id, now) ==
  LET imgs == [i \in 1..Len(files) |-> files[i].filename]
      data == ProductData(form, imgs)
  IN IF Len(imgs) < MinImages \/ Len(imgs) > MaxImages
     THEN [store |-> FALSE, doc |-> NoDoc,
           res |-> Response(400, "Number of images must be between 2 and 10")]
     ELSE IF data.colors.err
     THEN [store |-> FALSE, doc |-> NoDoc, res |-> Response(400, "SyntaxError")]
     ELSE IF ProductInvalid(data)
     THEN [store |-> FALSE, doc |-> NoDoc, res |-> Response(400, "ValidationError")]
     ELSE [store |-> TRUE, doc |-> NewProduct(data, id, now), res |-> NoResponse]

\* POST /api/uploads-blog: the whole handler.
UploadBlog(files) ==
  IF files = <<>>
  THEN Response(400, "No file uploaded")
  ELSE Response(200, "Image uploaded successfully")

\* POST /api/images, up to `await image.save()`.
CreateImage(files, id, now) ==
  IF files = <<>>
  THEN [store |-> FALSE, doc |-> NoDoc, res |-> Response(400, "No file uploaded")]
  ELSE [store |-> TRUE, doc |-> NewImage(files[1], id, now), res |-> NoResponse]

\* A handler that queries by the id of the path: the query throws on a
\* malformed id and the handler's catch answers 500.
ById(id, message) ==
  IF IsObjectId(id)
  THEN [store |-> TRUE, doc |-> NoDoc, res |-> NoResponse]
  ELSE [store |-> FALSE, doc |-> NoDoc, res |-> Response(500, message)]

\* What each handler answers once the store has answered.
Answer(route, found) ==
  CASE route = "GET /api/products" -> Response(200, "products")
    [] route = "POST /api/products" -> Response(201, "product")
    [] route = "GET /api/products/:id" ->
         IF found THEN Response(200, "product") ELSE Response(404, "Product not found")
    [] route = "PUT /api/products/:id" ->
         IF found THEN Response(200, "product") ELSE Response(404, "Product not found")
    [] route = "DELETE /api/products/:id" ->
         IF found THEN Response(204, "") ELSE Response(404, "Product not found")
    [] route = "POST /api/images" -> Response(200, "Image uploaded")
    [] route = "GET /api/images" -> Response(200, "images")
    [] route = "DELETE /api/images/:id" ->
         IF found THEN Response(200, "Image deleted") ELSE Response(404, "Image not found")

----------------------------------------------------------------------------
(* The state.                                                              *)

Callers == {"c1", "c2"}

VARIABLES
  running,    \* the process is up and listening
  connected,  \* mongoose.connect has resolved
  products,   \* the Product collection
  images,     \* the Image collection
  disk,       \* the stored names present in the upload directory
  clock,      \* Date.now()
  nextId,     \* the next ObjectId
  req,        \* per caller, its current or last request
  budget      \* requests that may still be issued

vars == <<running, connected, products, images, disk, clock, nextId, req, budget>>

NoForm == [name |-> Undefined]

\* A request: its route and input (id, form, upload, body), where its
\* handler stands (pc), what multer left in req.files, the document the
\* store was given or gave back, whether fs.unlink failed (fsError), how
\* many times the handler has called a sending method of res (sends), and
\* the response the caller got (res).
IdleReq ==
  [route |-> "none", pc |-> "idle", id |-> 0, form |-> NoForm,
   upload |-> <<>>, body |-> <<>>, files |-> <<>>, doc |-> NoDoc,
   found |-> FALSE, fsError |-> FALSE, sends |-> 0, res |-> NoResponse]

InFlight(r) == r.pc \in {"store", "resume", "unlink"}

CanIssue(c) == running /\ budget > 0 /\ ~InFlight(req[c])

\* The handler has answered and returned.
Answered(r, res) == [r EXCEPT !.pc = "done", !.res = res, !.sends = 1]

\* The handler is suspended on its store call.
Awaiting(r, doc) == [r EXCEPT !.pc = "store", !.doc = doc]

After(r, h) == IF h.store THEN Awaiting(r, h.doc) ELSE Answered(r, h.res)

\* The process ends: the requests in flight get no answer.
Aborted == [c \in Callers |->
              IF InFlight(req[c]) THEN [req[c] EXCEPT !.pc = "aborted"] ELSE req[c]]

----------------------------------------------------------------------------
(* Start of the process.                                                   *)

\* node index.js: connectDB() is called and not awaited, app.listen follows.
Start ==
  /\ ~running
  /\ running' = TRUE
  /\ connected' = FALSE
  /\ UNCHANGED <<products, images, disk, clock, nextId, req, budget>>

\* ConnectDB that inserts six sample products into an empty collection.
ConnectDBSeeding ==
  /\ running /\ ~connected
  /\ connected' = TRUE
  /\ products' = IF DOMAIN products = {}
                 THEN [i \in 101..106 |-> [id |-> i, name |-> <<"s", "a", "m", "p", "l", "e">>]]
                 ELSE products
  /\ UNCHANGED <<running, images, disk, clock, nextId, req, budget>>

\* connectDB: mongoose.connect resolves.  Nothing else is done at start.
ConnectDB ==
  /\ running /\ ~connected
  /\ connected' = TRUE
  /\ UNCHANGED <<running, products, images, disk, clock, nextId, req, budget>>

\* connectDB: mongoose.connect rejects, process.exit(1).
ConnectFailed ==
  /\ running /\ ~connected
  /\ running' = FALSE
  /\ req' = Aborted
  /\ UNCHANGED <<connected, products, images, disk, clock, nextId, budget>>

----------------------------------------------------------------------------
(* Requests.  An action that takes a request runs the route's middleware   *)
(* and its handler up to the first await.                                  *)

\* The clock may tick once while multer stores the files of a request,
\* after the k-th of them: here before the last file, or not at all.
Ticks(upload) == {k \in 0..Len(upload) : k >= Len(upload) - 1}

\* The handler of a route behind `upload`, up to its first await.
Handle(route, form, files, id, now) ==
  CASE route = "POST /api/products" -> CreateProduct(form, files, id, now)
    [] route = "POST /api/uploads-blog" ->
         [store |-> FALSE, doc |-> NoDoc, res |-> UploadBlog(files)]
    [] route = "POST /api/images" -> CreateImage(files, id, now)

\* A route behind `upload`: multer first; on its error Express looks for an
\* error middleware after the route; otherwise the handler runs on
\* req.files.
Uploaded(c, route, form, upload, maxCount, k) ==
  /\ CanIssue(c)
  /\ k \in Ticks(upload)
  /\ \E m \in {Multer(upload, maxCount, clock, k)} :
       LET now == IF upload = <<>> THEN clock ELSE TimeOf(clock, k, Len(upload))
           r1 == [IdleReq EXCEPT !.route = route, !.form = form,
                                 !.upload = upload, !.files = m.files]
       IN /\ budget' = budget - 1
          /\ clock' = now
          /\ disk' = (disk \cup m.written) \ m.removed
          /\ IF m.err # NoError
             THEN /\ req' = [req EXCEPT ![c] = Answered(r1, NextErr(m.err, LayerOf(route)))]
                  /\ UNCHANGED nextId
             ELSE \E h \in {Handle(route, form, m.files, nextId, now)} :
                    /\ req' = [req EXCEPT ![c] = After(r1, h)]
                    /\ nextId' = IF h.store THEN nextId + 1 ELSE nextId
  /\ UNCHANGED <<running, connected, products, images>>

\* app.post('/api/products', upload.array('images', 10), ...)
PostProduct(c, form, upload, k) ==
  Uploaded(c, "POST /api/products", form, upload, ProductImagesMax, k)

\* app.post('/api/uploads-blog', upload.single('image'), ...)
PostUploadsBlog(c, upload, k) ==
  Uploaded(c, "POST /api/uploads-blog", NoForm, upload, SingleFileMax, k)

\* app.post('/api/images', upload.single('image'), ...)
PostImage(c, upload, k) ==
  Uploaded(c, "POST /api/images", NoForm, upload, SingleFileMax, k)

\* A route without middleware of its own.
Plain(c, r, h) ==
  /\ CanIssue(c)
  /\ budget' = budget - 1
  /\ req' = [req EXCEPT ![c] = After(r, h)]
  /\ UNCHANGED <<running, connected, products, images, disk, clock, nextId>>

\* app.get('/api/products')
GetProducts(c) ==
  Plain(c, [IdleReq EXCEPT !.route = "GET /api/products"],
        [store |-> TRUE, doc |-> NoDoc, res |-> NoResponse])

\* app.get('/api/products/:id')
GetProduct(c, id) ==
  Plain(c, [IdleReq EXCEPT !.route = "GET /api/products/:id", !.id = id],
        ById(id, "Failed to retrieve product"))

\* app.put('/api/products/:id')
PutProduct(c, id, body) ==
  Plain(c, [IdleReq EXCEPT !.route = "PUT /api/products/:id", !.id = id, !.body = body],
        ById(id, "Failed to update product"))

\* app.delete('/api/products/:id')
DeleteProduct(c, id) ==
  Plain(c, [IdleReq EXCEPT !.route = "DELETE /api/products/:id", !.id = id],
        ById(id, "Failed to delete product"))

\* app.get('/api/images')
GetImages(c) ==
  Plain(c, [IdleReq EXCEPT !.route = "GET /api/images"],
        [store |-> TRUE, doc |-> NoDoc, res |-> NoResponse])

\* app.delete('/api/images/:id')
DeleteImage(c, id) ==
  Plain(c, [IdleReq EXCEPT !.route = "DELETE /api/images/:id", !.id = id],
        ById(id, "Failed to delete image"))

----------------------------------------------------------------------------
(* The store runs the call a handler awaits; each call is atomic there.    *)

Lookup(coll, id) == IF id \in DOMAIN coll THEN coll[id] ELSE NoDoc

Store(c) ==
  LET r == req[c]
      inProducts == r.id \in DOMAIN products
      inImages == r.id \in DOMAIN images
      resumed(found, doc) ==
        req' = [req EXCEPT ![c] = [r EXCEPT !.pc = "resume", !.found = found, !.doc = doc]]
  IN /\ running /\ connected
     /\ r.pc = "store"
     /\ CASE r.route = "POST /api/products" ->
               /\ products' = Insert(products, r.doc)
               /\ resumed(TRUE, r.doc)
               /\ UNCHANGED images
          [] r.route = "GET /api/products/:id" ->
               /\ resumed(inProducts, Lookup(products, r.id))
               /\ UNCHANGED <<products, images>>
          [] r.route = "PUT /api/products/:id" ->
               /\ products' = IF inProducts
                              THEN [products EXCEPT ![r.id] = ApplyUpdate(@, r.body)]
                              ELSE products
               /\ resumed(inProducts, Lookup(products', r.id))
               /\ UNCHANGED images
          [] r.route = "DELETE /api/products/:id" ->
               /\ products' = Remove(products, r.id)
               /\ resumed(inProducts, Lookup(products, r.id))
               /\ UNCHANGED images
          [] r.route = "POST /api/images" ->
               /\ images' = Insert(images, r.doc)
               /\ resumed(TRUE, r.doc)
               /\ UNCHANGED products
          [] r.route = "DELETE /api/images/:id" ->
               /\ images' = Remove(images, r.id)
               /\ resumed(inImages, Lookup(images, r.id))
               /\ UNCHANGED products
          [] OTHER ->
               /\ resumed(TRUE, NoDoc)
               /\ UNCHANGED <<products, images>>
     /\ UNCHANGED <<running, connected, disk, clock, nextId, budget>>

\* The handler runs on from its await to its end.  DELETE /api/images/:id
\* calls fs.unlink, which only starts the removal, and answers right after.
Resume(c) ==
  LET r == req[c]
      sent == [r EXCEPT !.res = Answer(r.route, r.found), !.sends = 1]
  IN /\ running
     /\ r.pc = "resume"
     /\ req' = [req EXCEPT ![c] =
                  IF r.route = "DELETE /api/images/:id" /\ r.found
                  THEN [sent EXCEPT !.pc = "unlink"]
                  ELSE [sent EXCEPT !.pc = "done"]]
     /\ UNCHANGED <<running, connected, products, images, disk, clock, nextId, budget>>

\* The callback of fs.unlink.  On success it does nothing.  On failure it
\* calls res.status(500).json(...) on a response that has been sent: json
\* throws, nothing catches it in a callback, and the process ends.
UnlinkCallback(c) ==
  LET r == req[c]
      file == r.doc.path[2]
  IN /\ running
     /\ r.pc = "unlink"
     /\ IF file \in disk
        THEN /\ disk' = disk \ {file}
             /\ req' = [req EXCEPT ![c] = [r EXCEPT !.pc = "done"]]
             /\ UNCHANGED <<running, connected>>
        ELSE /\ req' = [Aborted EXCEPT ![c] = [r EXCEPT !.pc = "done", !.fsError = TRUE,
                                                        !.sends = r.sends + 1]]
             /\ running' = FALSE
             /\ connected' = FALSE
             /\ UNCHANGED disk
     /\ UNCHANGED <<products, images, clock, nextId, budget>>

----------------------------------------------------------------------------
(* The requests that are tried.                                            *)

ImagePng == <<"i", "m", "a", "g", "e", "/", "p", "n", "g">>
Letters == <<"a", "b", "c", "d", "e", "f", "g", "h", "i", "j", "k">>

\* The i-th of a series of small PNG files with different names.
GoodFile(i) ==
  [originalname |-> <<Letters[i], ".", "p", "n", "g">>, mimetype |-> ImagePng, size |-> 1024]

Goods(n) == [i \in 1..n |-> GoodFile(i)]

GifFile ==
  [originalname |-> <<"x", ".", "g", "i", "f">>,
   mimetype |-> <<"i", "m", "a", "g", "e", "/", "g", "i", "f">>, size |-> 1024]
BigFile ==
  [originalname |-> <<"h", ".", "p", "n", "g">>, mimetype |-> ImagePng,
   size |-> FileSizeLimit + 1]
PngxFile ==
  [originalname |-> <<"s", ".", "p", "n", "g", "x">>, mimetype |-> ImagePng, size |-> 1024]
UpperFile ==
  [originalname |-> <<"U", ".", "P", "N", "G">>, mimetype |-> ImagePng, size |-> 1024]
HtmlFile ==
  [originalname |-> <<"y", ".", "p", "n", "g">>,
   mimetype |-> <<"t", "e", "x", "t", "/", "h", "t", "m", "l">>, size |-> 1024]
JpegFile ==
  [originalname |-> <<"z", ".", "j", "p", "e", "g">>,
   mimetype |-> <<"i", "m", "a", "g", "e", "/", "j", "p", "e", "g">>, size |-> 1024]
NoExtFile ==
  [originalname |-> <<"p", "n", "g">>, mimetype |-> ImagePng, size |-> 1024]

\* The uploads tried on POST /api/products: every interesting count of good
\* files, and a bad file among good ones.
ProductUploads ==
  {Goods(n) : n \in {0, 1, MinImages, MaxImages, MaxImages + 1}}
    \cup {<<GoodFile(1), GifFile>>, <<GoodFile(1), BigFile>>}

\* The uploads tried on the single-file routes.
SingleUploads ==
  {<<>>, <<GoodFile(1), GoodFile(2)>>}
    \cup {<<f>> : f \in {GoodFile(1), GifFile, BigFile, PngxFile, UpperFile,
                         HtmlFile, JpegFile, NoExtFile}}

BlogUploads == {<<>>, <<GoodFile(1)>>, <<BigFile>>}

Blue == <<"str", "#00f">>
Black == <<"str", "#000">>

FormFull ==
  [name |-> <<"A">>, variant |-> <<"v">>, price |-> <<"1", "0", "0">>,
   originalPrice |-> <<"1", "5", "0">>, category |-> <<"c">>,
   colors |-> << <<"[">>, Blue, <<",">>, Black, <<"]">> >>,
   rating |-> <<"4", ".", "5">>, reviews |-> <<"1", "2">>,
   isNew |-> <<"t", "r", "u", "e">>, badge |-> <<"h", "o", "t">>]

FormMinimal ==
  [name |-> <<"M">>, variant |-> <<"v">>, price |-> <<"7">>,
   originalPrice |-> Undefined, category |-> <<"c">>,
   colors |-> << <<"[">>, Black, <<"]">> >>,
   rating |-> Undefined, reviews |-> Undefined, isNew |-> Undefined,
   badge |-> Undefined]

FormNotNew == [FormFull EXCEPT !.isNew = <<"f", "a", "l", "s", "e">>]
FormBadPrice == [FormFull EXCEPT !.price = <<"a", "b", "c">>]
FormBadColors == [FormFull EXCEPT !.colors = << <<"[">>, Blue, <<",">>, <<"]">> >>]
FormNoName == [FormFull EXCEPT !.name = Undefined]

Forms == {FormFull, FormMinimal, FormNotNew, FormBadPrice, FormBadColors, FormNoName}

\* The JSON bodies tried on PUT /api/products/:id.
Bodies ==
  {[name |-> <<"B">>], [price |-> Num(7)],
   [name |-> <<"C">>, price |-> Num(9)], [images |-> <<>>]}

\* The ids tried in a path: those the store has given out, the next one,
\* and a text that is no ObjectId.
Ids == (1..nextId) \cup {MalformedId}

----------------------------------------------------------------------------
(* Specifications.                                                         *)

MaxCreateRequests == 2
MaxCatalogRequests == 4
MaxAssetRequests == 3
MaxRestartRequests == 4

InitWith(n) ==
  /\ running = FALSE
  /\ connected = FALSE
  /\ products = <<>>
  /\ images = <<>>
  /\ disk = {}
  /\ clock = 1
  /\ nextId = 1
  /\ req = [c \in Callers |-> IdleReq]
  /\ budget = n

Boot == Start \/ ConnectDB \/ ConnectFailed

Internal == \E c \in Callers : Store(c) \/ Resume(c) \/ UnlinkCallback(c)

\* Product creation with every form and upload by one caller, and fetch by
\* id by the other.
InitCreate == InitWith(MaxCreateRequests)

NextCreate ==
  \/ Boot
  \/ \E c \in Callers : Store(c) \/ Resume(c)
  \/ \E form \in Forms, upload \in ProductUploads :
       \E k \in Ticks(upload) : PostProduct("c1", form, upload, k)
  \/ \E id \in Ids : GetProduct("c2", id)

SpecCreate == InitCreate /\ [][NextCreate]_vars

\* The catalog routes with two callers at once.
InitCatalog == InitWith(MaxCatalogRequests)

NextCatalog ==
  \/ Boot
  \/ \E c \in Callers : Store(c) \/ Resume(c)
  \/ \E c \in Callers : PostProduct(c, FormFull, Goods(MinImages), MinImages)
  \/ \E c \in Callers : GetProducts(c)
  \/ \E c \in Callers, id \in Ids : GetProduct(c, id)
  \/ \E c \in Callers, id \in Ids, body \in Bodies : PutProduct(c, id, body)
  \/ \E c \in Callers, id \in Ids : DeleteProduct(c, id)

SpecCatalog == InitCatalog /\ [][NextCatalog]_vars

\* The asset routes with two callers at once.
InitAssets == InitWith(MaxAssetRequests)

NextAssets ==
  \/ Boot
  \/ Internal
  \/ \E c \in Callers, upload \in BlogUploads :
       \E k \in Ticks(upload) : PostUploadsBlog(c, upload, k)
  \/ \E c \in Callers, upload \in SingleUploads :
       \E k \in Ticks(upload) : PostImage(c, upload, k)
  \/ \E c \in Callers : GetImages(c)
  \/ \E c \in Callers, id \in Ids : DeleteImage(c, id)

SpecAssets == InitAssets /\ [][NextAssets]_vars

\* Restarts: a product, and the asset requests after which the process
\* ends on a failed fs.unlink.
InitRestart == InitWith(MaxRestartRequests)

NextRestart ==
  \/ Boot
  \/ Internal
  \/ \E c \in Callers : PostProduct(c, FormMinimal, Goods(MinImages), MinImages)
  \/ \E c \in Callers, upload \in {Goods(1), Goods(2)} : PostImage(c, upload, Len(upload))
  \/ \E c \in Callers, id \in 1..nextId : DeleteImage(c, id)

SpecRestart == InitRestart /\ [][NextRestart]_vars

----------------------------------------------------------------------------
(* Properties of product creation, under SpecCreate.                       *)

PostProducts == "POST /api/products"

\* The file passes the type and size validation on its own.
FilePasses(file) == FileFilter(file) /\ file.size <= FileSizeLimit

AllFilesPass(upload) == \A i \in 1..Len(upload) : FilePasses(upload[i])

CountInRange(upload) == Len(upload) >= 2 /\ Len(upload) <= 10

AllDigits(text) == text # Undefined /\ text # <<>> /\ DigitRun(text) = Len(text)

IsDecimal(text) ==
  /\ text # Undefined /\ text # <<>>
  /\ \/ AllDigits(text)
     \/ \E d \in 2..(Len(text) - 1) :
          /\ text[d] = "."
          /\ AllDigits(SubSeq(text, 1, d - 1))
          /\ AllDigits(SubSeq(text, d + 1, Len(text)))

TextTrue == <<"t", "r", "u", "e">>
TextFalse == <<"f", "a", "l", "s", "e">>

\* The form is what the route documents: the required texts are there, a
\* number is written as a number, colors is a JSON array of strings, isNew
\* is true or false.
FormValid(form) ==
  /\ TruthyText(form.name) /\ TruthyText(form.variant) /\ TruthyText(form.category)
  /\ AllDigits(form.price)
  /\ form.originalPrice = Undefined \/ AllDigits(form.originalPrice)
  /\ ~JSONParse(form.colors).err /\ JSONParse(form.colors).array
  /\ form.rating = Undefined \/ IsDecimal(form.rating)
  /\ form.reviews = Undefined \/ AllDigits(form.reviews)
  /\ form.isNew \in {Undefined, TextTrue, TextFalse}
  /\ form.badge = Undefined \/ TruthyText(form.badge)

\* C1: a POST /api/products whose files all pass validation but number
\* fewer than 2 or more than 10 is answered 400, and the step that answers it
\* leaves the Product collection as it was.
C1_CountOutOfRangeIs400 ==
  [][\A c \in Callers :
       (/\ req'[c] # req[c]
        /\ req'[c].route = PostProducts
        /\ req'[c].pc = "done"
        /\ AllFilesPass(req'[c].upload)
        /\ ~CountInRange(req'[c].upload))
       => (req'[c].res.status = 400 /\ products' = products)]_vars

\* C2: a valid POST /api/products with N files, 2 <= N <= 10, is answered
\* 201 and never refused; the store step of the request adds exactly one
\* Product, under a new id, leaving the others as they were; and the images
\* of that Product are the N stored names, the i-th being the name multer
\* gave the i-th file of the request.
C2_ImagesInUploadOrder ==
  [][\A c \in Callers :
       LET r == req[c]
           r2 == req'[c]
           valid == /\ r2.route = PostProducts
                    /\ FormValid(r2.form)
                    /\ AllFilesPass(r2.upload)
                    /\ CountInRange(r2.upload)
       IN valid =>
            /\ r2.pc = "done" => r2.res.status = 201
            /\ (r2 # r /\ r2.pc = "store") =>
                 /\ products' = products
                 /\ r2.doc.id \notin DOMAIN products
            /\ (r.pc = "store" /\ r2.pc = "resume") =>
                 /\ DOMAIN products' = DOMAIN products \cup {r.doc.id}
                 /\ r.doc.id \notin DOMAIN products
                 /\ \A i \in DOMAIN products : products'[i] = products[i]
                 /\ Len(products'[r.doc.id].images) = Len(r.upload)
                 /\ \A i \in 1..Len(r.upload) :
                      /\ products'[r.doc.id].images[i] = r.files[i].filename
                      /\ r.files[i].filename[2] = r.upload[i].originalname
                      /\ r.files[i].filename \in disk]_vars

\* C2 witness: a valid creation with the most files has been stored and
\* answered, the clock having ticked between two of its files.
C2_Witness ==
  \E c \in Callers :
    /\ req[c].route = PostProducts /\ req[c].pc = "done"
    /\ req[c].res.status = 201
    /\ Len(req[c].upload) = 10
    /\ req[c].doc.id \in DOMAIN products
    /\ products[req[c].doc.id].images[1][1] # products[req[c].doc.id].images[10][1]

\* The value a submitted text stands for, by the type the route documents.
NumberOf(text) ==
  IF AllDigits(text) THEN Num(DigitsValue(text)) ELSE ParseFloat(text)

\* C7: when POST /api/products has answered 201 and a GET of the returned id
\* finds the Product, each field the request submitted has in that Product
\* the value submitted, and the images are the stored names.
C7_RoundTrip ==
  \A c, d \in Callers :
    LET p == req[c]
        g == req[d]
    IN (/\ p.route = PostProducts /\ p.pc = "done" /\ p.res.status = 201
        /\ g.route = "GET /api/products/:id" /\ g.pc = "done"
        /\ g.id = p.doc.id /\ g.found)
       => /\ g.res.status = 200
          /\ g.doc.name = p.form.name
          /\ g.doc.variant = p.form.variant
          /\ g.doc.category = p.form.category
          /\ g.doc.price = NumberOf(p.form.price)
          /\ p.form.originalPrice # Undefined
               => g.doc.originalPrice = NumberOf(p.form.originalPrice)
          /\ g.doc.colors = JSONParse(p.form.colors).items
          /\ p.form.rating # Undefined => g.doc.rating = NumberOf(p.form.rating)
          /\ p.form.reviews # Undefined => g.doc.reviews = NumberOf(p.form.reviews)
          /\ p.form.isNew # Undefined => g.doc.isNew = (p.form.isNew = TextTrue)
          /\ p.form.badge # Undefined => g.doc.badge = p.form.badge
          /\ g.doc.images = [i \in 1..Len(p.files) |-> p.files[i].filename]

----------------------------------------------------------------------------
(* Properties of the catalog routes, under SpecCatalog.                    *)

DeleteProducts == "DELETE /api/products/:id"
GetProductById == "GET /api/products/:id"
PutProducts == "PUT /api/products/:id"

\* C6: DELETE /api/products/:id is answered 404 whenever its id identifies
\* no stored Product, whatever the id looks like; for the id of a stored
\* Product its store step removes that Product and changes no other; and a
\* GET of an id the store has given out that finds nothing is answered 404.
C6_DeleteThenNotFound ==
  [][\A c \in Callers :
       LET r == req[c]
           r2 == req'[c]
       IN /\ (r2 # r /\ r2.route = DeleteProducts /\ r2.pc = "done" /\ ~r2.found)
               => r2.res.status = 404
          /\ (r.route = DeleteProducts /\ r.pc = "store" /\ r2.pc = "resume"
                /\ r.id \in DOMAIN products)
               => /\ DOMAIN products' = DOMAIN products \ {r.id}
                  /\ \A i \in DOMAIN products' : products'[i] = products[i]
          /\ (r2 # r /\ r2.route = GetProductById /\ r2.pc = "done" /\ ~r2.found
                /\ r2.id \in 1..(nextId - 1))
               => r2.res.status = 404]_vars

\* C8: when both callers have had a PUT /api/products/:id of the same stored
\* id run by the store, each is answered 200, and the stored Product is the
\* document returned to one of them (the one the store ran last), with every
\* field of that caller's body in it.
C8_LastWriteWins ==
  \A c, d \in Callers :
    LET a == req[c]
        b == req[d]
    IN (/\ c # d
        /\ a.route = PutProducts /\ b.route = PutProducts
        /\ a.id = b.id
        /\ a.pc \in {"resume", "done"} /\ b.pc \in {"resume", "done"}
        /\ a.found /\ b.found)
       => /\ a.pc = "done" => a.res.status = 200
          /\ a.id \in DOMAIN products
          /\ \E w \in {a, b} :
               /\ products[a.id] = w.doc
               /\ \A f \in DOMAIN w.body : products[a.id][f] = w.body[f]

\* C8 witness: the store has run both callers' updates of the same Product,
\* which give it different names, and neither handler has answered yet.
C8_Witness ==
  \E c, d \in Callers :
    /\ c # d
    /\ req[c].route = PutProducts /\ req[d].route = PutProducts
    /\ req[c].id = req[d].id
    /\ req[c].pc = "resume" /\ req[d].pc = "resume"
    /\ req[c].found /\ req[d].found
    /\ req[c].body = [name |-> <<"B">>]
    /\ req[d].body = [name |-> <<"C">>, price |-> Num(9)]
    /\ products[req[c].id].name = <<"B">>
    /\ products[req[c].id].price = Num(9)

----------------------------------------------------------------------------
(* Properties of the upload validation and the asset routes, under         *)
(* SpecAssets.                                                             *)

PostImages == "POST /api/images"
DeleteImages == "DELETE /api/images/:id"

\* C3: a request that the upload validation rejects for a file too large or
\* of a type not allowed is answered 400, and for a file too large with the
\* error body that says so.
C3_RejectedUploadIs400 ==
  \A c \in Callers :
    LET r == req[c]
        err == Multer(r.upload, SingleFileMax, 0, 0).err
    IN (/\ r.route \in {PostImages, "POST /api/uploads-blog"}
        /\ r.pc = "done"
        /\ err.code = "LIMIT_FILE_SIZE" \/ err.name = "Error")
       => /\ r.res.status = 400
          /\ err.code = "LIMIT_FILE_SIZE"
               => r.res.body = "File too large. Maximum size is 20 MB."

ExtAllowed(file) ==
  ToLowerCase(ExtName(file.originalname))
    \in {<<".", "j", "p", "e", "g">>, <<".", "j", "p", "g">>, <<".", "p", "n", "g">>}

MimeAllowed(file) ==
  file.mimetype \in {<<"i", "m", "a", "g", "e", "/", "j", "p", "e", "g">>,
                     <<"i", "m", "a", "g", "e", "/", "j", "p", "g">>,
                     <<"i", "m", "a", "g", "e", "/", "p", "n", "g">>}

\* C4: a POST /api/images with a file whose extension or content type is
\* not one of jpeg, jpg, png is refused: it is answered with an error, multer
\* stores nothing for it and no Image is made.
C4_OnlyAllowListedTypes ==
  \A c \in Callers :
    LET r == req[c]
    IN (/\ r.route = PostImages
        /\ r.pc # "idle"
        /\ \E i \in 1..Len(r.upload) : ~(ExtAllowed(r.upload[i]) /\ MimeAllowed(r.upload[i])))
       => /\ r.pc = "done"
          /\ r.res.status >= 400
          /\ r.files = <<>>
          /\ r.doc = NoDoc

\* C5: when fs.unlink fails in DELETE /api/images/:id, the Image record is
\* gone and the caller's response is 500.
C5_MissingBlobIs500 ==
  \A c \in Callers :
    (req[c].route = DeleteImages /\ req[c].fsError)
      => /\ req[c].id \notin DOMAIN images
         /\ req[c].res.status = 500

\* C10: no handler calls a sending method of the response more than once
\* for a request.
C10_RespondsAtMostOnce == \A c \in Callers : req[c].sends <= 1

----------------------------------------------------------------------------
(* Properties of the start of the process, under SpecRestart.              *)

====
